---- MODULE Spec2Model ----
(***************************************************************************)
(* Easy Rider Bus Company: field validation, grouping of records into bus  *)
(* lines, structural and temporal checks of the lines and classification   *)
(* of the stops, as run by main() of easyrider.py.                         *)
(*                                                                         *)
(* A raw JSON scalar is a record [k, n, d, s]: k is its Python type        *)
(* ("int", "float", "str", "none"), n.d its numeric value (d is the tenths *)
(* digit of a float), s its characters when it is a string.  A missing key *)
(* reads as None through dict.get, as a JSON null does.  A string is a     *)
(* sequence of one-character strings; "^2" stands for the character        *)
(* SUPERSCRIPT TWO, for which str.isdigit() is true and int() raises.      *)
(***************************************************************************)
EXTENDS Integers, Sequences, FiniteSets, TLC

VARIABLES data, pc, status, i, bus_lines, result, li, si, previous_time,
          line_errors, scanned, bus_stops, output,
          start_stops, transfer_stops, finish_stops, on_demand_stops

vars == <<data, pc, status, i, bus_lines, result, li, si, previous_time,
          line_errors, scanned, bus_stops, output,
          start_stops, transfer_stops, finish_stops, on_demand_stops>>

(* ------------------------------ raw values ----------------------------- *)

IntV(n) == [k |-> "int", n |-> n, d |-> 0, s |-> <<>>]
FloatV(n, d) == [k |-> "float", n |-> n, d |-> d, s |-> <<>>]
StrV(s) == [k |-> "str", n |-> 0, d |-> 0, s |-> s]
NoneV == [k |-> "none", n |-> 0, d |-> 0, s |-> <<>>]

IsNumber(v) == v.k \in {"int", "float"}

\* Python's == on JSON scalars: numbers compare by value across int and float.
PyEq(a, b) ==
    IF IsNumber(a) /\ IsNumber(b) THEN a.n = b.n /\ a.d = b.d
    ELSE a.k = b.k /\ a.s = b.s

\* isinstance(v, int)
IsInt(v) == v.k = "int"

\* isinstance(v, str)
IsStr(v) == v.k = "str"

(* ------------------------------ characters ----------------------------- *)

DecimalDigits == <<"0", "1", "2", "3", "4", "5", "6", "7", "8", "9">>
DecimalChars == {DecimalDigits[x] : x \in 1..Len(DecimalDigits)}
\* characters c with c.isdigit() that are no decimal digits
OtherDigitChars == {"^2"}
UpperChars == {"A", "B", "C", "D", "E", "F", "G", "H", "I", "J", "K", "L", "M",
               "N", "O", "P", "Q", "R", "S", "T", "U", "V", "W", "X", "Y", "Z"}
LowerChars == {"a", "b", "c", "d", "e", "f", "g", "h", "i", "j", "k", "l", "m",
               "n", "o", "p", "q", "r", "s", "t", "u", "v", "w", "x", "y", "z"}

Road == <<"R", "o", "a", "d">>
Avenue == <<"A", "v", "e", "n", "u", "e">>
Boulevard == <<"B", "o", "u", "l", "e", "v", "a", "r", "d">>
Street == <<"S", "t", "r", "e", "e", "t">>
Suffixes == {Road, Avenue, Boulevard, Street}

SetMin(S) == CHOOSE x \in S : \A y \in S : x <= y

\* s[a:b] of Python, on 0-based offsets a <= b
Slice(s, a, b) ==
    LET hi == IF b > Len(s) THEN Len(s) ELSE b
    IN IF a >= hi THEN <<>> ELSE SubSeq(s, a + 1, hi)

\* str.isdigit()
isdigit(s) == s # <<>> /\ \A x \in 1..Len(s) : s[x] \in DecimalChars \cup OtherDigitChars

\* int(s) succeeds (the alphabet has no sign, blank or underscore)
IntParses(s) == s # <<>> /\ \A x \in 1..Len(s) : s[x] \in DecimalChars

DigitVal(c) == CHOOSE v \in 0..9 : DecimalDigits[v + 1] = c

RECURSIVE IntOf(_)
IntOf(s) ==
    IF s = <<>> THEN 0
    ELSE IntOf(SubSeq(s, 1, Len(s) - 1)) * 10 + DigitVal(s[Len(s)])

\* s.split(sep) for a one-character separator
RECURSIVE Split(_, _)
Split(s, sep) ==
    IF \A x \in 1..Len(s) : s[x] # sep THEN <<s>>
    ELSE LET p == SetMin({x \in 1..Len(s) : s[x] = sep})
         IN <<SubSeq(s, 1, p - 1)>> \o Split(SubSeq(s, p + 1, Len(s)), sep)

(* ------------------------------ records -------------------------------- *)

\* One raw record of the input; item.get(key) is the field, None when missing.
Item(b, sid, nm, nx, ty, at) ==
    [bus_id |-> b, stop_id |-> sid, stop_name |-> nm, next_stop |-> nx,
     stop_type |-> ty, a_time |-> at]

BusStop(item) ==
    [bus_id |-> item.bus_id, stop_id |-> item.stop_id, stop_name |-> item.stop_name,
     next_stop |-> item.next_stop, stop_type |-> item.stop_type, a_time |-> item.a_time]

BusLine(line_id) == [line_id |-> line_id, stops |-> <<>>]

ValidationResult ==
    [bus_id_errors |-> 0, stop_id_errors |-> 0, stop_name_errors |-> 0,
     next_stop_errors |-> 0, stop_type_errors |-> 0, a_time_errors |-> 0]

Counters == DOMAIN ValidationResult

TypeS == StrV(<<"S">>)
TypeO == StrV(<<"O">>)
TypeF == StrV(<<"F">>)
TypeNone == StrV(<<>>)

(* --------------------------- field validation -------------------------- *)

\* positions after one word [A-Z][a-z]+ that starts at position p
WordEnds(s, p) ==
    {q \in (p + 2)..(Len(s) + 1) :
        /\ s[p] \in UpperChars
        /\ \A x \in (p + 1)..(q - 1) : s[x] \in LowerChars}

\* positions reachable after [A-Z][a-z]+(?: [A-Z][a-z]+)*, by n more repetitions
RECURSIVE WordsEnds(_, _, _)
WordsEnds(s, P, n) ==
    IF n = 0 THEN P
    ELSE WordsEnds(s,
             P \cup UNION {WordEnds(s, p + 1) : p \in {q \in P : q <= Len(s) /\ s[q] = " "}},
             n - 1)

\* $ of Python's re: the end of the string, or just before a newline that ends it
AtDollar(s, p) == p = Len(s) + 1 \/ (p = Len(s) /\ s[p] = "\n")

\* re.match(r'^[A-Z][a-z]+(?: [A-Z][a-z]+)* (Road|Avenue|Boulevard|Street)$', s)
stop_name_match(s) ==
    \E p \in WordsEnds(s, WordEnds(s, 1), Len(s)) :
        /\ p <= Len(s)
        /\ s[p] = " "
        /\ \E suf \in Suffixes :
              /\ Slice(s, p, p + Len(suf)) = suf
              /\ AtDollar(s, p + Len(suf) + 1)

stop_name_ok(v) == IsStr(v) /\ v.s # <<>> /\ stop_name_match(v.s)

stop_type_ok(v) == \E t \in {TypeS, TypeO, TypeF, TypeNone} : PyEq(v, t)

\* the a_time condition of validate_item, evaluated left to right:
\* "ok", "error" (the condition is false) or "raise" (int() raises ValueError)
a_time_check(v) ==
    IF ~(IsStr(v) /\ Len(v.s) = 5) THEN "error"
    ELSE IF v.s[3] # ":" THEN "error"
    ELSE IF ~isdigit(Slice(v.s, 0, 2)) THEN "error"
    ELSE IF ~IntParses(Slice(v.s, 0, 2)) THEN "raise"
    ELSE IF ~(0 <= IntOf(Slice(v.s, 0, 2)) /\ IntOf(Slice(v.s, 0, 2)) < 24) THEN "error"
    ELSE IF ~isdigit(Slice(v.s, 3, 5)) THEN "error"
    ELSE IF ~IntParses(Slice(v.s, 3, 5)) THEN "raise"
    ELSE IF ~(0 <= IntOf(Slice(v.s, 3, 5)) /\ IntOf(Slice(v.s, 3, 5)) < 60) THEN "error"
    ELSE "ok"

Bump(res, c, failed) == IF failed THEN [res EXCEPT ![c] = @ + 1] ELSE res

\* validate_item(item, result): the counters afterwards, and whether it raised
validate_item(item, res) ==
    LET r1 == Bump(res, "bus_id_errors", ~IsInt(item.bus_id))
        r2 == Bump(r1, "stop_id_errors", ~IsInt(item.stop_id))
        r3 == Bump(r2, "stop_name_errors", ~stop_name_ok(item.stop_name))
        r4 == Bump(r3, "next_stop_errors", ~IsInt(item.next_stop))
        r5 == Bump(r4, "stop_type_errors", ~stop_type_ok(item.stop_type))
        t == a_time_check(item.a_time)
    IN [result |-> Bump(r5, "a_time_errors", t = "error"),
        raised |-> IF t = "raise" THEN "ValueError" ELSE "none"]

\* a_time_to_minutes(a_time): the minutes, or the exception raised
a_time_to_minutes(v) ==
    IF ~IsStr(v) THEN [exc |-> "AttributeError", minutes |-> 0]
    ELSE LET parts == Split(v.s, ":")
         IN IF Len(parts) = 2 /\ IntParses(parts[1]) /\ IntParses(parts[2])
            THEN [exc |-> "none", minutes |-> IntOf(parts[1]) * 60 + IntOf(parts[2])]
            ELSE [exc |-> "ValueError", minutes |-> 0]

(* ------------------------------ bus lines ------------------------------ *)

\* the loop of _get_or_create_line: index of the first line that matches, 0 if none
FindLine(lines, stop) ==
    LET m == {x \in 1..Len(lines) :
                 lines[x].stops # <<>> /\ PyEq(lines[x].line_id, stop.bus_id)}
    IN IF m = {} THEN 0 ELSE SetMin(m)

\* get_or_create_line with the lookup loop never matching
get_or_create_line_always_new(lines, stop) ==
    [lines |-> Append(lines, BusLine(stop.bus_id)), idx |-> Len(lines) + 1]

\* _get_or_create_line(stop): the line list afterwards and the index of the line
get_or_create_line(lines, stop) ==
    IF FindLine(lines, stop) # 0
    THEN [lines |-> lines, idx |-> FindLine(lines, stop)]
    ELSE [lines |-> Append(lines, BusLine(stop.bus_id)), idx |-> Len(lines) + 1]

\* one iteration of the loop of BusCompany.__init__
AddItem(lines, item) ==
    LET stop == BusStop(item)
        g == get_or_create_line(lines, stop)
    IN [g.lines EXCEPT ![g.idx].stops = Append(@, stop)]

get_number_of_stops(line) == Len(line.stops)

RECURSIVE CountType(_, _)
CountType(stops, t) ==
    IF stops = <<>> THEN 0
    ELSE (IF PyEq(Head(stops).stop_type, t) THEN 1 ELSE 0) + CountType(Tail(stops), t)

\* is_line_valid accepting any positive number of start stops
is_line_valid_some_start(line) ==
    CountType(line.stops, TypeS) >= 1 /\ CountType(line.stops, TypeF) = 1

is_line_valid(line) ==
    LET start_stops_n == CountType(line.stops, TypeS)
        finish_stops_n == CountType(line.stops, TypeF)
    IN start_stops_n = 1 /\ finish_stops_n = 1

(* ------------------------- counts and reports -------------------------- *)

\* Increment assigning 1 instead of adding 1
Increment_assign(counts, key) ==
    IF \E x \in 1..Len(counts) : PyEq(counts[x].key, key)
    THEN [x \in 1..Len(counts) |->
             IF PyEq(counts[x].key, key)
             THEN [counts[x] EXCEPT !.count = 1] ELSE counts[x]]
    ELSE Append(counts, [key |-> key, count |-> 1])

\* A dict, in insertion order: a sequence of [key, count]; keys match by ==
\* (equal scalars hash alike), and a key keeps the value first inserted.
Increment(counts, key) ==
    IF \E x \in 1..Len(counts) : PyEq(counts[x].key, key)
    THEN [x \in 1..Len(counts) |->
             IF PyEq(counts[x].key, key)
             THEN [counts[x] EXCEPT !.count = @ + 1] ELSE counts[x]]
    ELSE Append(counts, [key |-> key, count |-> 1])

RECURSIVE CountItems(_, _)
CountItems(items, counts) ==
    IF items = <<>> THEN counts
    ELSE CountItems(Tail(items), Increment(counts, Head(items).bus_id))

\* count_bus_stops(data)
count_bus_stops(items) == CountItems(items, <<>>)

\* the lines print_line_info prints for the lines given, in order
RECURSIVE print_line_info(_)
print_line_info(lines) ==
    IF lines = <<>> THEN <<>>
    ELSE IF ~is_line_valid(Head(lines))
         THEN <<[text |-> "no start or end stop", line_id |-> Head(lines).line_id,
                 stops |-> 0]>>
         ELSE <<[text |-> "stops", line_id |-> Head(lines).line_id,
                 stops |-> get_number_of_stops(Head(lines))]>>
              \o print_line_info(Tail(lines))

\* every stop of every line, in the order the nested loops visit them
RECURSIVE AllStops(_)
AllStops(lines) ==
    IF lines = <<>> THEN <<>> ELSE Head(lines).stops \o AllStops(Tail(lines))

\* set.add(v)
SetAdd(S, v) == IF \E e \in S : PyEq(e, v) THEN S ELSE S \cup {v}

\* RoleSets with the 'F' and 'O' branches exchanged
RECURSIVE RoleSets_swapped(_, _)
RoleSets_swapped(stops, acc) ==
    IF stops = <<>> THEN acc
    ELSE LET stop == Head(stops)
         IN RoleSets_swapped(Tail(stops),
                IF PyEq(stop.stop_type, TypeS)
                THEN [acc EXCEPT !.start = SetAdd(@, stop.stop_name)]
                ELSE IF PyEq(stop.stop_type, TypeO)
                THEN [acc EXCEPT !.finish = SetAdd(@, stop.stop_name)]
                ELSE IF PyEq(stop.stop_type, TypeF)
                THEN [acc EXCEPT !.on_demand = SetAdd(@, stop.stop_name)]
                ELSE acc)

\* the first loop of print_stops_info: the three role sets
RECURSIVE RoleSets(_, _)
RoleSets(stops, acc) ==
    IF stops = <<>> THEN acc
    ELSE LET stop == Head(stops)
         IN RoleSets(Tail(stops),
                IF PyEq(stop.stop_type, TypeS)
                THEN [acc EXCEPT !.start = SetAdd(@, stop.stop_name)]
                ELSE IF PyEq(stop.stop_type, TypeF)
                THEN [acc EXCEPT !.finish = SetAdd(@, stop.stop_name)]
                ELSE IF PyEq(stop.stop_type, TypeO)
                THEN [acc EXCEPT !.on_demand = SetAdd(@, stop.stop_name)]
                ELSE acc)

\* TransferSet counting the lines a name occurs in, not the stops
TransferSet_per_line(lines) ==
    LET names == {AllStops(lines)[x].stop_name : x \in 1..Len(AllStops(lines))}
    IN {nm \in names :
           Cardinality({k \in 1..Len(lines) :
               \E j \in 1..Len(lines[k].stops) : PyEq(lines[k].stops[j].stop_name, nm)}) > 1}

RECURSIVE CountNames(_, _)
CountNames(stops, counts) ==
    IF stops = <<>> THEN counts
    ELSE CountNames(Tail(stops), Increment(counts, Head(stops).stop_name))

\* the second part of print_stops_info: the names counted more than once
TransferSet(lines) ==
    LET stop_count == CountNames(AllStops(lines), <<>>)
    IN {stop_count[x].key : x \in {y \in 1..Len(stop_count) : stop_count[y].count > 1}}

(* ----------------------- validate_bus_arrival_times -------------------- *)

Unbound == [bound |-> FALSE, v |-> NoneV]
Bound(v) == [bound |-> TRUE, v |-> v]

Raise(exc, prev, res) ==
    [exc |-> exc, previous_time |-> prev, result |-> res, brk |-> FALSE]

\* check_stop comparing with <= instead of <
check_stop_le(stop, prev, res) ==
    IF PyEq(stop.stop_type, TypeS)
    THEN [exc |-> "none", previous_time |-> Bound(stop.a_time), result |-> res,
          brk |-> FALSE]
    ELSE LET current_time == stop.a_time
             cur == a_time_to_minutes(current_time)
         IN IF cur.exc # "none" THEN Raise(cur.exc, prev, res)
            ELSE IF ~prev.bound THEN Raise("UnboundLocalError", prev, res)
            ELSE IF a_time_to_minutes(prev.v).exc # "none"
                 THEN Raise(a_time_to_minutes(prev.v).exc, prev, res)
            ELSE IF cur.minutes <= a_time_to_minutes(prev.v).minutes
                 THEN [exc |-> "none", previous_time |-> prev,
                       result |-> [res EXCEPT !.a_time_errors = @ + 1], brk |-> TRUE]
                 ELSE [exc |-> "none", previous_time |-> Bound(current_time),
                       result |-> res, brk |-> FALSE]

\* the body of the inner loop, for one stop: the exception raised ("none" if
\* none), previous_time and the counters afterwards, and whether it breaks
check_stop(stop, prev, res) ==
    IF PyEq(stop.stop_type, TypeS)
    THEN [exc |-> "none", previous_time |-> Bound(stop.a_time), result |-> res,
          brk |-> FALSE]
    ELSE LET current_time == stop.a_time
             cur == a_time_to_minutes(current_time)
         IN IF cur.exc # "none" THEN Raise(cur.exc, prev, res)
            ELSE IF ~prev.bound THEN Raise("UnboundLocalError", prev, res)
            ELSE IF a_time_to_minutes(prev.v).exc # "none"
                 THEN Raise(a_time_to_minutes(prev.v).exc, prev, res)
            ELSE IF cur.minutes < a_time_to_minutes(prev.v).minutes
                 THEN [exc |-> "none", previous_time |-> prev,
                       result |-> [res EXCEPT !.a_time_errors = @ + 1], brk |-> TRUE]
                 ELSE [exc |-> "none", previous_time |-> Bound(current_time),
                       result |-> res, brk |-> FALSE]

(* ------------------------------- main() -------------------------------- *)

SeqsUpTo(S, n) == UNION {[1..m -> S] : m \in 0..n}

InitWith(batches) ==
    /\ data \in batches
    /\ pc = "BusCompany"
    /\ status = "running"
    /\ i = 1
    /\ bus_lines = <<>>
    /\ result = ValidationResult
    /\ li = 1
    /\ si = 1
    /\ previous_time = Unbound
    /\ line_errors = [x \in 1..Len(data) |-> 0]
    /\ scanned = [x \in 1..Len(data) |-> 0]
    /\ bus_stops = <<>>
    /\ output = <<>>
    /\ start_stops = {}
    /\ transfer_stops = {}
    /\ finish_stops = {}
    /\ on_demand_stops = {}

\* BusCompany(data): one item per step, then control passes to validate_data
BusCompany ==
    /\ pc = "BusCompany"
    /\ status = "running"
    /\ IF i <= Len(data)
       THEN /\ bus_lines' = AddItem(bus_lines, data[i])
            /\ i' = i + 1
            /\ pc' = pc
       ELSE /\ pc' = "validate_data"
            /\ i' = 1
            /\ bus_lines' = bus_lines
    /\ UNCHANGED <<data, status, result, li, si, previous_time, line_errors, scanned,
                   bus_stops, output, start_stops, transfer_stops, finish_stops,
                   on_demand_stops>>

\* validate_data(data): one validate_item per step
validate_data ==
    /\ pc = "validate_data"
    /\ status = "running"
    /\ IF i <= Len(data)
       THEN LET r == validate_item(data[i], result)
            IN /\ result' = r.result
               /\ status' = IF r.raised # "none" THEN r.raised ELSE status
               /\ i' = i + 1
               /\ pc' = pc
       ELSE /\ pc' = "validate_bus_arrival_times"
            /\ UNCHANGED <<result, status, i>>
    /\ UNCHANGED <<data, bus_lines, li, si, previous_time, line_errors, scanned,
                   bus_stops, output, start_stops, transfer_stops, finish_stops,
                   on_demand_stops>>

\* validate_bus_arrival_times: one stop per step; li, si are the two loops'
\* positions; line_errors and scanned record, per line, the errors the check
\* added and the last stop the inner loop visited
validate_bus_arrival_times ==
    /\ pc = "validate_bus_arrival_times"
    /\ status = "running"
    /\ IF li <= Len(bus_lines)
       THEN LET line == bus_lines[li]
                r == check_stop(line.stops[si], previous_time, result)
            IN /\ status' = IF r.exc # "none" THEN r.exc ELSE status
               /\ previous_time' = r.previous_time
               /\ result' = r.result
               /\ line_errors' = [line_errors EXCEPT
                      ![li] = @ + r.result.a_time_errors - result.a_time_errors]
               /\ scanned' = [scanned EXCEPT ![li] = si]
               /\ IF r.exc # "none" THEN UNCHANGED <<li, si>>
                  ELSE IF r.brk \/ si = Len(line.stops)
                       THEN li' = li + 1 /\ si' = 1
                       ELSE li' = li /\ si' = si + 1
               /\ pc' = pc
       ELSE /\ pc' = "count_bus_stops"
            /\ UNCHANGED <<status, previous_time, result, line_errors, scanned, li, si>>
    /\ UNCHANGED <<data, i, bus_lines, bus_stops, output, start_stops, transfer_stops,
                   finish_stops, on_demand_stops>>

\* bus_stops_count = count_bus_stops(data)
CountBusStops ==
    /\ pc = "count_bus_stops"
    /\ status = "running"
    /\ bus_stops' = count_bus_stops(data)
    /\ pc' = "print_bus_stops"
    /\ UNCHANGED <<data, status, i, bus_lines, result, li, si, previous_time,
                   line_errors, scanned, output, start_stops, transfer_stops,
                   finish_stops, on_demand_stops>>

\* sorted(bus_stops.keys()) compares the keys: numbers with numbers and strings
\* with strings only, anything else raises TypeError
Sortable(counts) ==
    \/ Len(counts) <= 1
    \/ \A x \in 1..Len(counts) : IsNumber(counts[x].key)
    \/ \A x \in 1..Len(counts) : IsStr(counts[x].key)

\* print_bus_stops(bus_stops_count); the text printed is not kept
print_bus_stops ==
    /\ pc = "print_bus_stops"
    /\ status = "running"
    /\ IF Sortable(bus_stops)
       THEN pc' = "print_line_info" /\ status' = status
       ELSE pc' = pc /\ status' = "TypeError"
    /\ UNCHANGED <<data, i, bus_lines, result, li, si, previous_time, line_errors,
                   scanned, bus_stops, output, start_stops, transfer_stops,
                   finish_stops, on_demand_stops>>

\* bus_company.print_line_info()
PrintLineInfo ==
    /\ pc = "print_line_info"
    /\ status = "running"
    /\ output' = print_line_info(bus_lines)
    /\ pc' = "print_stops_info"
    /\ UNCHANGED <<data, status, i, bus_lines, result, li, si, previous_time,
                   line_errors, scanned, bus_stops, start_stops, transfer_stops,
                   finish_stops, on_demand_stops>>

\* bus_company.print_stops_info()
print_stops_info ==
    /\ pc = "print_stops_info"
    /\ status = "running"
    /\ LET sets == RoleSets(AllStops(bus_lines),
                            [start |-> {}, finish |-> {}, on_demand |-> {}])
       IN /\ start_stops' = sets.start
          /\ finish_stops' = sets.finish
          /\ on_demand_stops' = sets.on_demand
    /\ transfer_stops' = TransferSet(bus_lines)
    /\ pc' = "done"
    /\ UNCHANGED <<data, status, i, bus_lines, result, li, si, previous_time,
                   line_errors, scanned, bus_stops, output>>

Next ==
    \/ BusCompany
    \/ validate_data
    \/ validate_bus_arrival_times
    \/ CountBusStops
    \/ print_bus_stops
    \/ PrintLineInfo
    \/ print_stops_info

(* ------------------------------- inputs -------------------------------- *)

T0800 == StrV(<<"0", "8", ":", "0", "0">>)
T0759 == StrV(<<"0", "7", ":", "5", "9">>)
T0810 == StrV(<<"0", "8", ":", "1", "0">>)
ElmRoad == StrV(<<"E", "l", "m", " ", "R", "o", "a", "d">>)
OakStreet == StrV(<<"O", "a", "k", " ", "S", "t", "r", "e", "e", "t">>)

\* records that differ in line, role and arrival time (a missing a_time included)
TimesItems ==
    {Item(IntV(b), IntV(1), ElmRoad, IntV(2), ty, at) :
        b \in {1, 2}, ty \in {TypeS, TypeO}, at \in {T0800, T0810, T0759, NoneV}}

MaxTimesLen == 3

InitTimes == InitWith(SeqsUpTo(TimesItems, MaxTimesLen))

SpecTimes == InitTimes /\ [][Next]_vars

\* records that differ in bus_id (valid and invalid values, 1 == 1.0) and stop_id
GroupItems ==
    {Item(b, IntV(sid), ElmRoad, IntV(2), TypeS, T0800) :
        b \in {IntV(1), IntV(2), FloatV(1, 0), StrV(<<"1">>), NoneV}, sid \in {1, 2}}

MaxGroupLen == 3

InitGroup == InitWith(SeqsUpTo(GroupItems, MaxGroupLen))

SpecGroup == InitGroup /\ [][Next]_vars

\* records that differ in line and role
ValidItems ==
    {Item(IntV(b), IntV(1), ElmRoad, IntV(2), ty, T0800) :
        b \in {1, 2}, ty \in {TypeS, TypeF, TypeNone}}

MaxValidLen == 4

InitValid == InitWith(SeqsUpTo(ValidItems, MaxValidLen))

SpecValid == InitValid /\ [][Next]_vars

\* records that differ in line, name and role
TransferItems ==
    {Item(IntV(b), IntV(1), nm, IntV(2), ty, T0800) :
        b \in {1, 2}, nm \in {ElmRoad, OakStreet}, ty \in {TypeS, TypeO}}

MaxTransferLen == 3

InitTransfer == InitWith(SeqsUpTo(TransferItems, MaxTransferLen))

SpecTransfer == InitTransfer /\ [][Next]_vars

\* records of one line that differ in name and role (an unknown and a missing
\* role included)
RoleItems ==
    {Item(IntV(1), IntV(1), nm, IntV(2), ty, T0800) :
        nm \in {ElmRoad, OakStreet},
        ty \in {TypeS, TypeF, TypeO, TypeNone, StrV(<<"X">>), NoneV}}

MaxRolesLen == 3

InitRoles == InitWith(SeqsUpTo(RoleItems, MaxRolesLen))

SpecRoles == InitRoles /\ [][Next]_vars

SanfordAvenue ==
    StrV(<<"S", "a", "n", "f", "o", "r", "d", " ", "A", "v", "e", "n", "u", "e">>)

BusIdSamples == {IntV(1), StrV(<<"1">>), FloatV(1, 0), NoneV}
StopIdSamples == {IntV(1), StrV(<<"1">>), NoneV}
NextStopSamples == {IntV(2), FloatV(2, 5), NoneV}
StopNameSamples ==
    {SanfordAvenue,
     StrV(<<"s", "a", "n", "f", "o", "r", "d", " ", "A", "v", "e", "n", "u", "e">>),
     StrV(<<"S", "a", "n", "f", "o", "r", "d", " ", "a", "v", "e", "n", "u", "e">>),
     StrV(<<"S", "a", "n", "f", "o", "r", "d", " ", "A", "v", "e", "n">>),
     StrV(<<>>),
     StrV(<<"S", "a", "n", "f", "o", "r", "d", " ", "A", "v", "e", "n", "u", "e", "\n">>),
     StrV(<<"O", "a", "k", " ", "H", "i", "l", "l", " ", "R", "o", "a", "d">>),
     StrV(<<"O", "a", "k", " ", " ", "R", "o", "a", "d">>),
     StrV(<<"R", "o", "a", "d">>),
     StrV(<<"E", "l", "m", " ", "B", "o", "u", "l", "e", "v", "a", "r", "d">>),
     OakStreet, IntV(7), NoneV}
StopTypeSamples == {TypeS, TypeO, TypeF, TypeNone, StrV(<<"X">>), StrV(<<"S", "O">>), NoneV}
ATimeSamples ==
    {StrV(<<"0", "8", ":", "0", "5">>), StrV(<<"8", ":", "0", "5">>),
     StrV(<<"0", "8", ":", "5">>), StrV(<<"2", "4", ":", "0", "0">>),
     StrV(<<"0", "8", ":", "6", "0">>), StrV(<<"2", "3", ":", "5", "9">>),
     StrV(<<"0", "8", "0", "0", "5">>), StrV(<<"a", "b", ":", "c", "d">>),
     StrV(<<"^2", "3", ":", "0", "0">>), IntV(805), NoneV}

\* every combination of the sample values of the six fields
ItemSamples ==
    {Item(b, sid, nm, nx, ty, at) :
        b \in BusIdSamples, sid \in StopIdSamples, nm \in StopNameSamples,
        nx \in NextStopSamples, ty \in StopTypeSamples, at \in ATimeSamples}

ValidItem == Item(IntV(1), IntV(1), SanfordAvenue, IntV(2), TypeS, T0800)

\* the records that differ from a valid record in at most one field
OneFaultItems ==
    {it \in ItemSamples :
        Cardinality({f \in DOMAIN ValidItem : it[f] # ValidItem[f]}) <= 1}
    \cup {ValidItem}

MaxItemLen == 2

\* one record of any combination, or a few records with at most one fault each
InitItem ==
    InitWith({<<it>> : it \in ItemSamples} \cup SeqsUpTo(OneFaultItems, MaxItemLen))

SpecItem == InitItem /\ [][Next]_vars

\* main() on any of the inputs above
Init == InitTimes \/ InitGroup \/ InitValid \/ InitTransfer \/ InitRoles \/ InitItem

Spec == Init /\ [][Next]_vars

(* --------------------------- temporal check ---------------------------- *)

\* the temporal check has finished with line k (by exhaustion or by break)
TimesDone(k) ==
    \/ pc = "validate_bus_arrival_times" /\ k < li
    \/ pc \in {"count_bus_stops", "print_bus_stops", "print_line_info",
               "print_stops_info", "done"}

\* stop j >= 2 is no start stop and arrives strictly earlier than the stop before it
Earlier(stops, j) ==
    /\ j >= 2
    /\ ~PyEq(stops[j].stop_type, TypeS)
    /\ a_time_to_minutes(stops[j].a_time).exc = "none"
    /\ a_time_to_minutes(stops[j - 1].a_time).exc = "none"
    /\ a_time_to_minutes(stops[j].a_time).minutes
          < a_time_to_minutes(stops[j - 1].a_time).minutes

OrphanStop ==
    /\ pc = "validate_bus_arrival_times"
    /\ status = "running"
    /\ li <= Len(bus_lines)
    /\ \A j \in 1..si : ~PyEq(bus_lines[li].stops[j].stop_type, TypeS)

\* C2: a non-start stop with no start stop before it in its line is skipped:
\* no arrival-time error is recorded, the baseline is not updated and the run
\* does not fail.
C2_OrphanStopSkipped ==
    [][OrphanStop =>
          /\ result' = result
          /\ previous_time' = previous_time
          /\ status' = "running"]_vars

\* C4: validate_data followed by validate_bus_arrival_times never raises on a
\* missing or malformed field value.
C4_NeverRaises == status \notin {"AttributeError", "ValueError"}

(* ------------------------------ grouping ------------------------------- *)

\* the records BusCompany has consumed so far
Consumed == IF pc = "BusCompany" THEN SubSeq(data, 1, i - 1) ELSE data

FirstRecord(items, id) == SetMin({x \in 1..Len(items) : PyEq(items[x].bus_id, id)})

\* C6: there is exactly one line per distinct bus_id value, the lines are in
\* the order of first appearance of their bus_id, and the stops of a line are
\* the records with that bus_id, in input order, none dropped, duplicated or
\* reordered.
C6_LinesAreSubsequences ==
    LET items == Consumed
    IN /\ \A k1, k2 \in 1..Len(bus_lines) :
              k1 # k2 => ~PyEq(bus_lines[k1].line_id, bus_lines[k2].line_id)
       /\ \A x \in 1..Len(items) :
              \E k \in 1..Len(bus_lines) : PyEq(bus_lines[k].line_id, items[x].bus_id)
       /\ \A k \in 1..Len(bus_lines) :
              /\ \E x \in 1..Len(items) : PyEq(items[x].bus_id, bus_lines[k].line_id)
              /\ bus_lines[k].line_id = items[FirstRecord(items, bus_lines[k].line_id)].bus_id
              /\ bus_lines[k].stops =
                     SelectSeq(items, LAMBDA r : PyEq(r.bus_id, bus_lines[k].line_id))
       /\ \A k1, k2 \in 1..Len(bus_lines) :
              k1 < k2 => FirstRecord(items, bus_lines[k1].line_id)
                            < FirstRecord(items, bus_lines[k2].line_id)

\* three records built, the lines "1" and 1 interleaved, the ids not both valid
C6_Witness ==
    /\ pc = "validate_data"
    /\ Len(data) = 3
    /\ data[1].bus_id = StrV(<<"1">>)
    /\ data[2].bus_id = IntV(1)
    /\ data[3].bus_id = StrV(<<"1">>)
    /\ data[1].stop_id # data[3].stop_id
    /\ Len(bus_lines) = 2
    /\ bus_lines[1].stops = <<data[1], data[3]>>

RECURSIVE TotalStops(_)
TotalStops(lines) ==
    IF lines = <<>> THEN 0 ELSE get_number_of_stops(Head(lines)) + TotalStops(Tail(lines))

Counted == pc \in {"print_bus_stops", "print_line_info", "print_stops_info", "done"}

StopsOfType(line, t) == {j \in 1..Len(line.stops) : line.stops[j].stop_type = t}

\* C7: is_line_valid is true exactly for the lines with one stop of role 'S'
\* and one stop of role 'F', wherever they are in the line.
C7_ValidIffOneStartOneFinish ==
    \A k \in 1..Len(bus_lines) :
        is_line_valid(bus_lines[k])
            <=> /\ Cardinality(StopsOfType(bus_lines[k], TypeS)) = 1
                /\ Cardinality(StopsOfType(bus_lines[k], TypeF)) = 1

\* print_line_info has run on a line with two 'S' stops and one 'F' stop and
\* reported it
C7_Witness ==
    /\ pc \in {"print_stops_info", "done"}
    /\ \E k \in 1..Len(bus_lines) :
          /\ Cardinality(StopsOfType(bus_lines[k], TypeS)) = 2
          /\ Cardinality(StopsOfType(bus_lines[k], TypeF)) = 1
          /\ ~is_line_valid(bus_lines[k])
          /\ output[Len(output)] =
                 [text |-> "no start or end stop", line_id |-> bus_lines[k].line_id,
                  stops |-> 0]

Invalid(line) ==
    ~(Cardinality(StopsOfType(line, TypeS)) = 1 /\ Cardinality(StopsOfType(line, TypeF)) = 1)

\* C3: when some line is structurally invalid the line-info output is only the
\* failure message of the first invalid line; the per-line lines are printed
\* only when all lines are valid.
C3_OnlyTheFailureIsReported ==
    pc \in {"print_stops_info", "done"} =>
        IF \E k \in 1..Len(bus_lines) : Invalid(bus_lines[k])
        THEN LET first == SetMin({k \in 1..Len(bus_lines) : Invalid(bus_lines[k])})
             IN output = <<[text |-> "no start or end stop",
                            line_id |-> bus_lines[first].line_id, stops |-> 0]>>
        ELSE output = [k \in 1..Len(bus_lines) |->
                          [text |-> "stops", line_id |-> bus_lines[k].line_id,
                           stops |-> Len(bus_lines[k].stops)]]

(* --------------------------- classification ---------------------------- *)

StopsNamed(nm) ==
    {<<k, j>> \in (1..Len(bus_lines)) \X (1..Len(data)) :
        j <= Len(bus_lines[k].stops) /\ bus_lines[k].stops[j].stop_name = nm}

AllNames == {data[x].stop_name : x \in 1..Len(data)}

HasRole(nm, t) ==
    \E k \in 1..Len(bus_lines) : \E j \in 1..Len(bus_lines[k].stops) :
        bus_lines[k].stops[j].stop_name = nm /\ bus_lines[k].stops[j].stop_type = t

\* C9: a name is in the start, finish or on-demand set exactly when some stop
\* with that name has role 'S', 'F' or 'O'; stops of any other role add to none
\* of the three.
C9_RoleSets ==
    pc = "done" =>
        /\ start_stops \cup finish_stops \cup on_demand_stops \subseteq AllNames
        /\ \A nm \in AllNames :
              /\ nm \in start_stops <=> HasRole(nm, TypeS)
              /\ nm \in finish_stops <=> HasRole(nm, TypeF)
              /\ nm \in on_demand_stops <=> HasRole(nm, TypeO)

\* a name that is a start, a finish and a transfer stop at once, and a name
\* whose only stop has an unknown role and is in none of the three sets
C9_Witness ==
    /\ pc = "done"
    /\ ElmRoad \in start_stops \cap finish_stops \cap transfer_stops
    /\ \E x \in 1..Len(data) :
          data[x].stop_name = OakStreet /\ data[x].stop_type = StrV(<<"X">>)
    /\ OakStreet \notin start_stops \cup finish_stops \cup on_demand_stops

(* --------------------------- field validation -------------------------- *)

Capitalized(w) ==
    /\ Len(w) >= 2
    /\ w[1] \in UpperChars
    /\ \A x \in 2..Len(w) : w[x] \in LowerChars

\* the stop-name rule: capitalized words and then one of the four suffixes,
\* separated by single spaces, and nothing else
NameRule(v) ==
    /\ IsStr(v)
    /\ LET words == Split(v.s, " ")
       IN /\ Len(words) >= 2
          /\ \A x \in 1..(Len(words) - 1) : Capitalized(words[x])
          /\ words[Len(words)] \in Suffixes

\* the arrival-time rule: HH:MM, five characters, 00 <= HH <= 23, 00 <= MM <= 59
TimeRule(v) ==
    /\ IsStr(v)
    /\ Len(v.s) = 5
    /\ v.s[3] = ":"
    /\ \A x \in {1, 2, 4, 5} : v.s[x] \in DecimalChars
    /\ DigitVal(v.s[1]) * 10 + DigitVal(v.s[2]) <= 23
    /\ DigitVal(v.s[4]) * 10 + DigitVal(v.s[5]) <= 59

\* the record fails the rule of counter c
Fails(c, item) ==
    CASE c = "bus_id_errors" -> item.bus_id.k # "int"
      [] c = "stop_id_errors" -> item.stop_id.k # "int"
      [] c = "stop_name_errors" -> ~NameRule(item.stop_name)
      [] c = "next_stop_errors" -> item.next_stop.k # "int"
      [] c = "stop_type_errors" ->
             ~(item.stop_type.k = "str"
               /\ item.stop_type.s \in {<<"S">>, <<"O">>, <<"F">>, <<>>})
      [] c = "a_time_errors" -> ~TimeRule(item.a_time)

ValidatingItem == pc = "validate_data" /\ status = "running" /\ i <= Len(data)

\* C5: validate_item on one record adds exactly 1 to each counter whose rule
\* the record fails and 0 to the others, and completes.
C5_EachFailedRuleCountedOnce ==
    [][ValidatingItem =>
          /\ status' = "running"
          /\ \A c \in Counters :
                result'[c] = result[c] + (IF Fails(c, data[i]) THEN 1 ELSE 0)]_vars

====
